---- MODULE Spec2Model ----
(***************************************************************************)
(* Model of the two-stage pipeline generator (src/src/playground.py), of   *)
(* the transcript serializer (src/src/run_logging/local.py) and of the     *)
(* run-directory allocation (src/src/utils/create_user.py).                *)
(*                                                                         *)
(* Spec     : concurrent runs of playground.py against one workspace root. *)
(* SpecSer  : one call of save_message_history / save_full_message_history *)
(*            on a bounded input, followed step by step through its file   *)
(*            operations.                                                  *)
(***************************************************************************)
EXTENDS Integers, Sequences, FiniteSets, TLC

(***************************************************************************)
(* Bounds of the model.                                                    *)
(***************************************************************************)
\* longest turn sequence handed to the serializer
MaxLen == 2
\* number of concurrent runs
NumRuns == 2
\* the wall clock (seconds) runs from 0 to MaxClock
MaxClock == 1

(***************************************************************************)
(* Python values.  A value is a record [t, v]: t is its type tag and v the *)
(* text str() gives for it.                                                *)
(*   "str"    a string                "int"    an integer                  *)
(*   "map"    a JSON-encodable dict   "badmap" a dict with a tuple key     *)
(*   "obj"    an object json cannot encode natively (e.g. a datetime)      *)
(*   "absent" no such key / attribute                                      *)
(***************************************************************************)
Absent == [t |-> "absent", v |-> ""]

PyStrVal(s) == [t |-> "str", v |-> s]

\* str(x)
PyStr(x) == [t |-> "str", v |-> x.v]

\* d.get(key, default) / getattr(o, name, default)
Get(x, default) == IF x = Absent THEN default ELSE x

\* datetime.now().isoformat() inside the serializer
NowIso == PyStrVal("now")

EmptyDict == [t |-> "map", v |-> "{}"]

ContentVals == {Absent, PyStrVal("hello"), [t |-> "int", v |-> "7"]}
MetadataVals == {Absent, [t |-> "map", v |-> "{k: 1}"], [t |-> "badmap", v |-> "{(1, 2): 1}"]}
RoleVals == {Absent, PyStrVal("user")}
TimestampVals == {Absent, [t |-> "obj", v |-> "2025-01-01 00:00:00"]}

(***************************************************************************)
(* Turns (elements of message_history).  hasDump: hasattr(msg,             *)
(* 'model_dump'); hasDict: hasattr(msg, '__dict__'); isMap:                *)
(* isinstance(msg, dict); dumpRaises: calling model_dump() raises.  The    *)
(* four fields are what the turn carries; each way of reading the turn     *)
(* (model_dump(), getattr, .get) yields its own view of them.              *)
(***************************************************************************)
AllTurns ==
    { m \in [hasDump : BOOLEAN, hasDict : BOOLEAN, isMap : BOOLEAN, dumpRaises : BOOLEAN,
             timestamp : TimestampVals, role : RoleVals,
             content : ContentVals, metadata : MetadataVals] :
        m.dumpRaises => m.hasDump }

Turn(d, a, k, r, ts, ro, c, md) ==
    [hasDump |-> d, hasDict |-> a, isMap |-> k, dumpRaises |-> r,
     timestamp |-> ts, role |-> ro, content |-> c, metadata |-> md]

\* one turn of each supported shape, one whose model_dump() raises and one
\* whose metadata cannot be JSON-encoded
StructuredTurn == Turn(TRUE, TRUE, FALSE, FALSE, Absent, PyStrVal("user"), PyStrVal("hello"), Absent)
AttributedTurn == Turn(FALSE, TRUE, FALSE, FALSE, [t |-> "obj", v |-> "2025-01-01 00:00:00"], Absent, Absent, Absent)
MappingTurn == Turn(FALSE, FALSE, TRUE, FALSE, Absent, PyStrVal("user"), [t |-> "int", v |-> "7"], [t |-> "map", v |-> "{k: 1}"])
OpaqueTurn == Turn(FALSE, FALSE, FALSE, FALSE, Absent, Absent, PyStrVal("hello"), Absent)
RaisingTurn == Turn(TRUE, TRUE, FALSE, TRUE, Absent, Absent, PyStrVal("hello"), Absent)
BadKeyTurn == Turn(FALSE, FALSE, TRUE, FALSE, Absent, PyStrVal("user"), PyStrVal("hello"), [t |-> "badmap", v |-> "{(1, 2): 1}"])

SmallTurns == {StructuredTurn, AttributedTurn, MappingTurn, OpaqueTurn, RaisingTurn, BadKeyTurn}

\* type(msg).__name__
TypeName(m) ==
    IF m.hasDump THEN "BaseModel"
    ELSE IF m.hasDict THEN "Object"
    ELSE IF m.isMap THEN "dict"
    ELSE "str"

\* str(msg)
Repr(m) == PyStrVal(TypeName(m) \o "(" \o m.content.v \o ")")

\* the value a field has when read through one of the three sources
View(src, x) == IF x = Absent THEN Absent ELSE [t |-> x.t, v |-> src \o ":" \o x.v]

\* msg.model_dump(), as the map itself and as the value stored under raw_data
DumpField(m, f) == View("dump", m[f])
DumpValue(m) ==
    [t |-> IF m.metadata.t = "badmap" THEN "badmap" ELSE "map",
     v |-> "dump(" \o m.content.v \o ")"]
\* getattr(msg, f, ...)
AttrField(m, f) == View("attr", m[f])
\* msg.get(f, ...)
KeyField(m, f) == View("key", m[f])

(***************************************************************************)
(* extract_message_data                                                    *)
(***************************************************************************)
ExtractRaises(m) == m.hasDump /\ m.dumpRaises

MessageData(i, ts, ro, c, md, raw, ty, ks) ==
    [id |-> i, timestamp |-> ts, role |-> ro, content |-> c, metadata |-> md,
     raw_data |-> raw, type |-> ty, keys |-> ks]

BaseKeys == {"id", "timestamp", "role", "content", "metadata"}

\* faulty variant: __dict__ is probed before model_dump
extract_message_data_AttrFirst(msg, index) ==
    IF msg.hasDict THEN
        MessageData(index,
                    Get(AttrField(msg, "timestamp"), NowIso),
                    Get(AttrField(msg, "role"), PyStrVal("unknown")),
                    PyStr(Get(AttrField(msg, "content"), Repr(msg))),
                    Get(AttrField(msg, "metadata"), EmptyDict),
                    Absent, PyStrVal(TypeName(msg)), BaseKeys \cup {"type"})
    ELSE IF msg.hasDump THEN
        MessageData(index,
                    Get(DumpField(msg, "timestamp"), NowIso),
                    Get(DumpField(msg, "role"), PyStrVal("unknown")),
                    PyStr(Get(DumpField(msg, "content"), PyStrVal(""))),
                    Get(DumpField(msg, "metadata"), EmptyDict),
                    DumpValue(msg), Absent, BaseKeys \cup {"raw_data"})
    ELSE IF msg.isMap THEN
        MessageData(index,
                    Get(KeyField(msg, "timestamp"), NowIso),
                    Get(KeyField(msg, "role"), PyStrVal("unknown")),
                    PyStr(Get(KeyField(msg, "content"), PyStrVal(""))),
                    Get(KeyField(msg, "metadata"), EmptyDict),
                    Absent, Absent, BaseKeys)
    ELSE
        MessageData(index, NowIso, PyStrVal("unknown"), Repr(msg), EmptyDict,
                    Absent, PyStrVal(TypeName(msg)), BaseKeys \cup {"type"})

\* faulty variant: a dict without "content" gets str(msg), a dict without
\* "metadata" gets no metadata
extract_message_data_MapFallback(msg, index) ==
    IF msg.hasDump THEN
        MessageData(index,
                    Get(DumpField(msg, "timestamp"), NowIso),
                    Get(DumpField(msg, "role"), PyStrVal("unknown")),
                    PyStr(Get(DumpField(msg, "content"), PyStrVal(""))),
                    Get(DumpField(msg, "metadata"), EmptyDict),
                    DumpValue(msg), Absent, BaseKeys \cup {"raw_data"})
    ELSE IF msg.hasDict THEN
        MessageData(index,
                    Get(AttrField(msg, "timestamp"), NowIso),
                    Get(AttrField(msg, "role"), PyStrVal("unknown")),
                    PyStr(Get(AttrField(msg, "content"), Repr(msg))),
                    Get(AttrField(msg, "metadata"), EmptyDict),
                    Absent, PyStrVal(TypeName(msg)), BaseKeys \cup {"type"})
    ELSE IF msg.isMap THEN
        MessageData(index,
                    Get(KeyField(msg, "timestamp"), NowIso),
                    Get(KeyField(msg, "role"), PyStrVal("unknown")),
                    PyStr(Get(KeyField(msg, "content"), Repr(msg))),
                    KeyField(msg, "metadata"),
                    Absent, Absent, BaseKeys)
    ELSE
        MessageData(index, NowIso, PyStrVal("unknown"), Repr(msg), EmptyDict,
                    Absent, PyStrVal(TypeName(msg)), BaseKeys \cup {"type"})

extract_message_data(msg, index) ==
    IF msg.hasDump THEN
        MessageData(index,
                    Get(DumpField(msg, "timestamp"), NowIso),
                    Get(DumpField(msg, "role"), PyStrVal("unknown")),
                    PyStr(Get(DumpField(msg, "content"), PyStrVal(""))),
                    Get(DumpField(msg, "metadata"), EmptyDict),
                    DumpValue(msg), Absent, BaseKeys \cup {"raw_data"})
    ELSE IF msg.hasDict THEN
        MessageData(index,
                    Get(AttrField(msg, "timestamp"), NowIso),
                    Get(AttrField(msg, "role"), PyStrVal("unknown")),
                    PyStr(Get(AttrField(msg, "content"), Repr(msg))),
                    Get(AttrField(msg, "metadata"), EmptyDict),
                    Absent, PyStrVal(TypeName(msg)), BaseKeys \cup {"type"})
    ELSE IF msg.isMap THEN
        MessageData(index,
                    Get(KeyField(msg, "timestamp"), NowIso),
                    Get(KeyField(msg, "role"), PyStrVal("unknown")),
                    PyStr(Get(KeyField(msg, "content"), PyStrVal(""))),
                    Get(KeyField(msg, "metadata"), EmptyDict),
                    Absent, Absent, BaseKeys)
    ELSE
        MessageData(index, NowIso, PyStrVal("unknown"), Repr(msg), EmptyDict,
                    Absent, PyStrVal(TypeName(msg)), BaseKeys \cup {"type"})

\* faulty variant: ids counted from 1
ExtractAll_FromOne(history) == [i \in 1..Len(history) |-> extract_message_data(history[i], i)]

\* [extract_message_data(msg, i) for i, msg in enumerate(message_history)]
ExtractAll(history) == [i \in 1..Len(history) |-> extract_message_data(history[i], i - 1)]
AnyExtractRaises(history) == \E i \in 1..Len(history) : ExtractRaises(history[i])

(***************************************************************************)
(* json.dump: what the encoder does to one value and to one record.        *)
(***************************************************************************)
\* default=str: a value the encoder does not know is replaced by str(value)
JsonValue(x) == IF x.t = "obj" THEN PyStr(x) ELSE x
\* a dict with a non-string key makes the encoder raise TypeError
JsonRaises(x) == x.t = "badmap"

JsonRecord(rec) ==
    [rec EXCEPT !.timestamp = JsonValue(@), !.role = JsonValue(@),
                !.content = JsonValue(@), !.metadata = JsonValue(@),
                !.raw_data = JsonValue(@), !.type = JsonValue(@)]
JsonRecordRaises(rec) == JsonRaises(rec.metadata) \/ JsonRaises(rec.raw_data)

\* a raw turn inside save_full_message_history's document: a dict is encoded
\* natively, anything else through default=str
RawJson(m) == IF m.isMap THEN [t |-> "map", v |-> Repr(m).v] ELSE Repr(m)
RawJsonRaises(m) == m.isMap /\ JsonRaises(m.metadata)

\* format_type.lower()
Lower(s) == IF s = "JSON" THEN "json" ELSE IF s = "Markdown" THEN "markdown" ELSE s
FormatTypes == {"json", "JSON", "markdown", "Markdown", "xml"}


(***************************************************************************)
(* State.                                                                  *)
(***************************************************************************)
VARIABLES
    \* ---- one serializer call (local.py) ----
    fn,                 \* "history": save_message_history, "full": save_full_message_history
    message_history,    \* the turn sequence (workflow_history for "full")
    snakemake_history,  \* second turn sequence of save_full_message_history
    format_type,        \* the format_type argument
    parentExists,       \* whether file_path's parent directory exists
    file,               \* what is at file_path: [state, doc]
    mdfile,             \* state of file_path.with_suffix('.md')
    spc,                \* position of the call
    exc,                \* the exception caught or raised, "none" if none
    messages_data,      \* the local messages_data
    written,            \* how many list elements json.dump / the loop has written
    \* ---- runs of playground.py ----
    pc,                 \* position of each run
    agent_id,           \* the run id of each run (chars)
    stage1,             \* state of workflow_agent.run
    stage2,             \* state of code_agent.run
    attempts1,          \* model requests made by a workflow_agent.run that is in
                        \* flight or has raised (the agent's counter; 0 otherwise)
    attempts2,          \* the same for code_agent.run
    calls2,             \* number of code_agent.run invocations
    err,                \* the exception that ended the run, "none" if none
    timestamp,          \* the local timestamp of generate_bioinformatics_pipeline
    clock,              \* wall clock, in seconds
    dirs,               \* directories that exist
    files,              \* transcript files that exist: [dir, name, ts, owner]
    wlog                \* every write made: [dir, name, ts, run]

serVars == <<fn, message_history, snakemake_history, format_type, parentExists,
             file, mdfile, spc, exc, messages_data, written>>
runVars == <<pc, agent_id, stage1, stage2, attempts1, attempts2, calls2, err,
             timestamp, clock, dirs, files, wlog>>
vars == <<serVars, runVars>>

(***************************************************************************)
(* Documents.  keys is the set of top-level keys of the JSON object.       *)
(***************************************************************************)
Doc(form, ts, total, msgs, error, strs, wf, sn, ks) ==
    [form |-> form, timestamp |-> ts, total_messages |-> total, messages |-> msgs,
     error |-> error, messages_str |-> strs, workflow_messages |-> wf,
     snakemake_messages |-> sn, keys |-> ks]

NoDoc == Doc("none", "", 0, <<>>, "", <<>>, <<>>, <<>>, {})
\* a complete document left at file_path by an earlier call
OldDoc ==
    Doc("normal", "earlier", 0, <<>>, "", <<>>, <<>>, <<>>,
        {"timestamp", "total_messages", "messages"})

\* history_data, with the messages written so far
NormalDoc(history, msgs) ==
    Doc("normal", NowIso.v, Len(history), msgs, "", <<>>, <<>>, <<>>,
        {"timestamp", "total_messages", "messages"})

\* fallback_data
FallbackDoc(history, e) ==
    Doc("degraded", NowIso.v, Len(history), <<>>, "Failed to serialize messages: " \o e,
        [i \in 1..Len(history) |-> PyStr(Repr(history[i]))], <<>>, <<>>,
        {"timestamp", "total_messages", "error", "messages_str"})

\* all_messages, with the raw turns written so far
FullDoc(wf, sn) ==
    Doc("combined", "", 0, <<>>, "", <<>>, wf, sn,
        {"workflow_messages", "snakemake_messages"})

\* open(path, 'w') has truncated the file and nothing is written yet
Truncated == [state |-> "partial", doc |-> NoDoc]


(***************************************************************************)
(* save_message_history, format_type "json" (local.py 57-79), one file     *)
(* operation per step.                                                     *)
(***************************************************************************)
SerUnchanged == UNCHANGED <<fn, message_history, snakemake_history, format_type, parentExists>>
RunUnchanged == UNCHANGED runVars

IsJson == fn = "history" /\ Lower(format_type) = "json"
IsMarkdown == fn = "history" /\ Lower(format_type) = "markdown"

\* faulty variant: no handler around the extraction
SerExtract_Escapes ==
    /\ spc = "call" /\ IsJson
    /\ IF AnyExtractRaises(message_history)
       THEN /\ spc' = "raised"
            /\ exc' = "extract"
            /\ UNCHANGED messages_data
       ELSE /\ spc' = "open"
            /\ messages_data' = ExtractAll(message_history)
            /\ UNCHANGED exc
    /\ UNCHANGED <<file, mdfile, written>>
    /\ SerUnchanged /\ RunUnchanged

\* line 59: the list comprehension; an exception goes to the handler of line 70
SerExtract ==
    /\ spc = "call" /\ IsJson
    /\ IF AnyExtractRaises(message_history)
       THEN /\ spc' = "fallback"
            /\ exc' = "extract"
            /\ UNCHANGED messages_data
       ELSE /\ spc' = "open"
            /\ messages_data' = ExtractAll(message_history)
            /\ UNCHANGED exc
    /\ UNCHANGED <<file, mdfile, written>>
    /\ SerUnchanged /\ RunUnchanged

\* line 67: open(file_path, 'w') truncates the file, or raises inside the try
SerOpen ==
    /\ spc = "open"
    /\ IF parentExists
       THEN /\ file' = Truncated
            /\ spc' = "dump"
            /\ written' = 0
            /\ UNCHANGED exc
       ELSE /\ spc' = "fallback"
            /\ exc' = "io"
            /\ UNCHANGED <<file, written>>
    /\ UNCHANGED <<mdfile, messages_data>>
    /\ SerUnchanged /\ RunUnchanged

\* faulty variant: the handler swallows the encoder's exception
SerDumpChunk_Swallows ==
    /\ spc = "dump" /\ written < Len(messages_data)
    /\ LET rec == messages_data[written + 1] IN
       IF JsonRecordRaises(rec)
       THEN /\ spc' = "returned"
            /\ exc' = "encode"
            /\ UNCHANGED <<file, written>>
       ELSE /\ file' = [state |-> "partial",
                        doc |-> NormalDoc(message_history,
                                          Append(file.doc.messages, JsonRecord(rec)))]
            /\ written' = written + 1
            /\ UNCHANGED <<spc, exc>>
    /\ UNCHANGED <<mdfile, messages_data>>
    /\ SerUnchanged /\ RunUnchanged

\* line 68: json.dump writes the document chunk by chunk; an element that
\* cannot be encoded raises TypeError after the chunks before it are written
SerDumpChunk ==
    /\ spc = "dump" /\ written < Len(messages_data)
    /\ LET rec == messages_data[written + 1] IN
       IF JsonRecordRaises(rec)
       THEN /\ spc' = "fallback"
            /\ exc' = "encode"
            /\ UNCHANGED <<file, written>>
       ELSE /\ file' = [state |-> "partial",
                        doc |-> NormalDoc(message_history,
                                          Append(file.doc.messages, JsonRecord(rec)))]
            /\ written' = written + 1
            /\ UNCHANGED <<spc, exc>>
    /\ UNCHANGED <<mdfile, messages_data>>
    /\ SerUnchanged /\ RunUnchanged

\* lines 67-68: the last chunk is written, the file is closed, the call returns
SerDumpFinish ==
    /\ spc = "dump" /\ written = Len(messages_data)
    /\ file' = [state |-> "complete",
                doc |-> NormalDoc(message_history, file.doc.messages)]
    /\ spc' = "returned"
    /\ UNCHANGED <<mdfile, exc, messages_data, written>>
    /\ SerUnchanged /\ RunUnchanged

\* lines 70-78: the handler builds fallback_data and opens the same path;
\* an exception here leaves the function
SerFallbackOpen ==
    /\ spc = "fallback"
    /\ IF parentExists
       THEN /\ file' = Truncated
            /\ spc' = "fbdump"
            /\ UNCHANGED exc
       ELSE /\ spc' = "raised"
            /\ exc' = "io"
            /\ UNCHANGED file
    /\ UNCHANGED <<mdfile, messages_data, written>>
    /\ SerUnchanged /\ RunUnchanged

\* line 79: json.dump(fallback_data, ...): strings and one integer only
SerFallbackDump ==
    /\ spc = "fbdump"
    /\ file' = [state |-> "complete", doc |-> FallbackDoc(message_history, exc)]
    /\ spc' = "returned"
    /\ UNCHANGED <<mdfile, exc, messages_data, written>>
    /\ SerUnchanged /\ RunUnchanged

(***************************************************************************)
(* save_message_history, format_type "markdown" (local.py 81-92) and any   *)
(* other format_type (no branch is taken).                                 *)
(***************************************************************************)
\* line 82 and the header lines 83-84
SerMdOpen ==
    /\ spc = "call" /\ IsMarkdown
    /\ IF parentExists
       THEN /\ mdfile' = "partial"
            /\ spc' = "mdloop"
            /\ written' = 0
            /\ UNCHANGED exc
       ELSE /\ spc' = "raised"
            /\ exc' = "io"
            /\ UNCHANGED <<mdfile, written>>
    /\ UNCHANGED <<file, messages_data>>
    /\ SerUnchanged /\ RunUnchanged

\* lines 86-92: one iteration; extraction is not guarded here
SerMdWrite ==
    /\ spc = "mdloop" /\ written < Len(message_history)
    /\ IF ExtractRaises(message_history[written + 1])
       THEN /\ spc' = "raised"
            /\ exc' = "extract"
            /\ UNCHANGED written
       ELSE /\ written' = written + 1
            /\ UNCHANGED <<spc, exc>>
    /\ UNCHANGED <<file, mdfile, messages_data>>
    /\ SerUnchanged /\ RunUnchanged

\* the with block of line 82 ends
SerMdFinish ==
    /\ spc = "mdloop" /\ written = Len(message_history)
    /\ mdfile' = "complete"
    /\ spc' = "returned"
    /\ UNCHANGED <<file, exc, messages_data, written>>
    /\ SerUnchanged /\ RunUnchanged

\* neither line 57 nor line 81 matches: the function falls off its end
SerNoFormat ==
    /\ spc = "call" /\ fn = "history"
    /\ Lower(format_type) \notin {"json", "markdown"}
    /\ spc' = "returned"
    /\ UNCHANGED <<file, mdfile, exc, messages_data, written>>
    /\ SerUnchanged /\ RunUnchanged

(***************************************************************************)
(* save_full_message_history (local.py 95-111).                            *)
(***************************************************************************)
AllRaw == message_history \o snakemake_history

\* line 110
FullOpen ==
    /\ spc = "call" /\ fn = "full"
    /\ IF parentExists
       THEN /\ file' = Truncated
            /\ spc' = "fulldump"
            /\ written' = 0
            /\ UNCHANGED exc
       ELSE /\ spc' = "raised"
            /\ exc' = "io"
            /\ UNCHANGED <<file, written>>
    /\ UNCHANGED <<mdfile, messages_data>>
    /\ SerUnchanged /\ RunUnchanged

FullWritten(n) ==
    FullDoc([i \in 1..(IF n < Len(message_history) THEN n ELSE Len(message_history))
                |-> RawJson(message_history[i])],
            [i \in 1..(IF n > Len(message_history) THEN n - Len(message_history) ELSE 0)
                |-> RawJson(snakemake_history[i])])

\* line 111: one raw turn is written, or the encoder raises out of the function
FullDumpChunk ==
    /\ spc = "fulldump" /\ written < Len(AllRaw)
    /\ IF RawJsonRaises(AllRaw[written + 1])
       THEN /\ spc' = "raised"
            /\ exc' = "encode"
            /\ file' = [state |-> "partial", doc |-> FullWritten(written)]
            /\ UNCHANGED written
       ELSE /\ file' = [state |-> "partial", doc |-> FullWritten(written + 1)]
            /\ written' = written + 1
            /\ UNCHANGED <<spc, exc>>
    /\ UNCHANGED <<mdfile, messages_data>>
    /\ SerUnchanged /\ RunUnchanged

FullDumpFinish ==
    /\ spc = "fulldump" /\ written = Len(AllRaw)
    /\ file' = [state |-> "complete", doc |-> FullWritten(written)]
    /\ spc' = "returned"
    /\ UNCHANGED <<mdfile, exc, messages_data, written>>
    /\ SerUnchanged /\ RunUnchanged

\* the process is terminated while the call is in progress
SerKill ==
    /\ spc \notin {"idle", "returned", "raised", "killed"}
    /\ spc' = "killed"
    /\ UNCHANGED <<file, mdfile, exc, messages_data, written>>
    /\ SerUnchanged /\ RunUnchanged


(***************************************************************************)
(* create_new_user_and_rundir (create_user.py 5-11).  Strings are          *)
(* sequences of one-character strings.                                     *)
(***************************************************************************)
\* run_id[:32]
IdMaxLen == 32

Rep(c, n) == [i \in 1..n |-> c]

\* s.replace(a, b), a and b single characters
Replace(s, a, b) == [i \in 1..Len(s) |-> IF s[i] = a THEN b ELSE s[i]]

\* s.split(sep)
RECURSIVE Split(_, _)
Split(s, sep) ==
    IF \A i \in 1..Len(s) : s[i] # sep
    THEN <<s>>
    ELSE LET i == CHOOSE j \in 1..Len(s) : s[j] = sep /\ \A k \in 1..(j - 1) : s[k] # sep
         IN <<SubSeq(s, 1, i - 1)>> \o Split(SubSeq(s, i + 1, Len(s)), sep)

\* sep.join(parts)
RECURSIVE Join(_, _)
Join(sep, parts) ==
    IF Len(parts) = 0 THEN <<>>
    ELSE IF Len(parts) = 1 THEN parts[1]
    ELSE parts[1] \o <<sep>> \o Join(sep, Tail(parts))

\* parts[:-1]
DropLast(parts) == IF Len(parts) = 0 THEN parts ELSE SubSeq(parts, 1, Len(parts) - 1)

\* s[:n]
Take(s, n) == IF Len(s) <= n THEN s ELSE SubSeq(s, 1, n)

\* line 6
RunId(p) ==
    Take(Join("_", DropLast(Split(Replace(Replace(p, "-", "_"), " ", "_"), "_"))), IdMaxLen)

\* phrases HRID().generate() may return: two that differ in a separator and
\* in the last segment, and two longer than 32 characters
Phrases ==
    { <<"r", "e", "d", "-", "f", "o", "x", "-", "1">>,
      <<"r", "e", "d", " ", "f", "o", "x", "-", "r", "u", "n">>,
      Rep("x", 30) \o <<"-", "a", "b", "c", "-", "1">>,
      Rep("x", 30) \o <<"-", "a", "d", "-", "2">> }

Runs == 1..NumRuns

\* workspace_dir / run_id, and CODE_OUTPUT_PATH / agent_id (playground.py 36)
RunDir(id) == <<"../generated", id>>

NoId == <<>>

\* playground.py 34-36 with create_user.py 5-11; mkdir(parents=True,
\* exist_ok=True) succeeds whether or not the directory exists
CreateRunDir(r) ==
    /\ pc[r] = "import"
    /\ \E p \in Phrases :
          /\ agent_id' = [agent_id EXCEPT ![r] = RunId(p)]
          /\ dirs' = dirs \cup {RunDir(RunId(p))}
    /\ pc' = [pc EXCEPT ![r] = "ready"]
    /\ UNCHANGED <<stage1, stage2, attempts1, attempts2, calls2, err, timestamp, clock,
                   files, wlog>>
    /\ UNCHANGED serVars


(***************************************************************************)
(* generate_bioinformatics_pipeline (playground.py 184-220).               *)
(***************************************************************************)
\* config["max_validation_retries"]; no Agent is given it
max_validation_retries == 5
\* workflow_agent and code_agent are built without a retries argument, so
\* each allows the library default of one retry of an invalid output
AgentRetries == 1

\* faulty variant: line 36 is missing, every run writes under ../generated
OutputDir_Root(r) == RunDir(NoId)

OutputDir(r) == RunDir(agent_id[r])

\* open(path, 'w') and the dump, for a transcript of run r
WriteFile(r, name, ts) ==
    /\ files' = {f \in files : ~(f.dir = OutputDir(r) /\ f.name = name /\ f.ts = ts)}
                   \cup {[dir |-> OutputDir(r), name |-> name, ts |-> ts, owner |-> r]}
    /\ wlog' = wlog \cup {[dir |-> OutputDir(r), name |-> name, ts |-> ts, run |-> r]}

\* line 192: workflow_agent.run is awaited
Stage1Start(r) ==
    /\ pc[r] = "ready"
    /\ pc' = [pc EXCEPT ![r] = "stage1"]
    /\ stage1' = [stage1 EXCEPT ![r] = "inflight"]
    /\ attempts1' = [attempts1 EXCEPT ![r] = 1]
    /\ UNCHANGED <<agent_id, stage2, attempts2, calls2, err, timestamp, clock,
                   dirs, files, wlog>>
    /\ UNCHANGED serVars

\* the model's output does not validate as WorkflowDesign: the agent asks
\* again while retries are left, then raises out of line 192
Stage1Invalid(r) ==
    /\ pc[r] = "stage1"
    /\ IF attempts1[r] <= AgentRetries
       THEN /\ attempts1' = [attempts1 EXCEPT ![r] = @ + 1]
            /\ UNCHANGED <<pc, stage1, err>>
       ELSE /\ stage1' = [stage1 EXCEPT ![r] = "failed"]
            /\ err' = [err EXCEPT ![r] = "validation"]
            /\ pc' = [pc EXCEPT ![r] = "failed"]
            /\ UNCHANGED attempts1
    /\ UNCHANGED <<agent_id, stage2, attempts2, calls2, timestamp, clock,
                   dirs, files, wlog>>
    /\ UNCHANGED serVars

\* faulty variant: the exception of line 192 is swallowed and the run goes on
Stage1Transport_Swallowed(r) ==
    /\ pc[r] = "stage1"
    /\ stage1' = [stage1 EXCEPT ![r] = "failed"]
    /\ err' = [err EXCEPT ![r] = "transport"]
    /\ pc' = [pc EXCEPT ![r] = "designed"]
    /\ UNCHANGED <<agent_id, stage2, attempts1, attempts2, calls2, timestamp,
                   clock, dirs, files, wlog>>
    /\ UNCHANGED serVars

\* the request fails in transport (timeout, provider error): line 192 raises
Stage1Transport(r) ==
    /\ pc[r] = "stage1"
    /\ stage1' = [stage1 EXCEPT ![r] = "failed"]
    /\ err' = [err EXCEPT ![r] = "transport"]
    /\ pc' = [pc EXCEPT ![r] = "failed"]
    /\ UNCHANGED <<agent_id, stage2, attempts1, attempts2, calls2, timestamp,
                   clock, dirs, files, wlog>>
    /\ UNCHANGED serVars

\* line 192 returns a result holding a WorkflowDesign
Stage1Valid(r) ==
    /\ pc[r] = "stage1"
    /\ stage1' = [stage1 EXCEPT ![r] = "ok"]
    /\ attempts1' = [attempts1 EXCEPT ![r] = 0]
    /\ pc' = [pc EXCEPT ![r] = "designed"]
    /\ UNCHANGED <<agent_id, stage2, attempts2, calls2, err,
                   timestamp, clock, dirs, files, wlog>>
    /\ UNCHANGED serVars

\* faulty variant: line 199 is missing
SaveWorkflowHistory_NoWrite(r) ==
    /\ pc[r] = "designed"
    /\ timestamp' = [timestamp EXCEPT ![r] = clock]
    /\ pc' = [pc EXCEPT ![r] = "saved1"]
    /\ UNCHANGED <<agent_id, stage1, stage2, attempts1, attempts2, calls2, err,
                   clock, dirs, files, wlog>>
    /\ UNCHANGED serVars

\* lines 193-200: timestamp is taken once, the stage-1 transcript is saved
SaveWorkflowHistory(r) ==
    /\ pc[r] = "designed"
    /\ timestamp' = [timestamp EXCEPT ![r] = clock]
    /\ WriteFile(r, "workflow_design_history", clock)
    /\ pc' = [pc EXCEPT ![r] = "saved1"]
    /\ UNCHANGED <<agent_id, stage1, stage2, attempts1, attempts2, calls2, err,
                   clock, dirs>>
    /\ UNCHANGED serVars

\* lines 203-211: the prompt is built from design, code_agent.run is awaited
Stage2Start(r) ==
    /\ pc[r] = "saved1"
    /\ pc' = [pc EXCEPT ![r] = "stage2"]
    /\ stage2' = [stage2 EXCEPT ![r] = "inflight"]
    /\ calls2' = [calls2 EXCEPT ![r] = @ + 1]
    /\ attempts2' = [attempts2 EXCEPT ![r] = 1]
    /\ UNCHANGED <<agent_id, stage1, attempts1, err, timestamp, clock, dirs,
                   files, wlog>>
    /\ UNCHANGED serVars

Stage2Invalid(r) ==
    /\ pc[r] = "stage2"
    /\ IF attempts2[r] <= AgentRetries
       THEN /\ attempts2' = [attempts2 EXCEPT ![r] = @ + 1]
            /\ UNCHANGED <<pc, stage2, err>>
       ELSE /\ stage2' = [stage2 EXCEPT ![r] = "failed"]
            /\ err' = [err EXCEPT ![r] = "validation"]
            /\ pc' = [pc EXCEPT ![r] = "failed"]
            /\ UNCHANGED attempts2
    /\ UNCHANGED <<agent_id, stage1, attempts1, calls2, timestamp, clock,
                   dirs, files, wlog>>
    /\ UNCHANGED serVars

Stage2Transport(r) ==
    /\ pc[r] = "stage2"
    /\ stage2' = [stage2 EXCEPT ![r] = "failed"]
    /\ err' = [err EXCEPT ![r] = "transport"]
    /\ pc' = [pc EXCEPT ![r] = "failed"]
    /\ UNCHANGED <<agent_id, stage1, attempts1, attempts2, calls2, timestamp,
                   clock, dirs, files, wlog>>
    /\ UNCHANGED serVars

\* line 211 returns a result holding a SnakemakeCode
Stage2Valid(r) ==
    /\ pc[r] = "stage2"
    /\ stage2' = [stage2 EXCEPT ![r] = "ok"]
    /\ attempts2' = [attempts2 EXCEPT ![r] = 0]
    /\ pc' = [pc EXCEPT ![r] = "generated"]
    /\ UNCHANGED <<agent_id, stage1, attempts1, calls2, err,
                   timestamp, clock, dirs, files, wlog>>
    /\ UNCHANGED serVars

\* faulty variant: the file name is built from a fresh datetime.now()
SaveSnakemakeHistory_NewStamp(r) ==
    /\ pc[r] = "generated"
    /\ WriteFile(r, "snakemake_generation_history", clock)
    /\ pc' = [pc EXCEPT ![r] = "saved2"]
    /\ UNCHANGED <<agent_id, stage1, stage2, attempts1, attempts2, calls2, err,
                   timestamp, clock, dirs>>
    /\ UNCHANGED serVars

\* lines 212-215
SaveSnakemakeHistory(r) ==
    /\ pc[r] = "generated"
    /\ WriteFile(r, "snakemake_generation_history", timestamp[r])
    /\ pc' = [pc EXCEPT ![r] = "saved2"]
    /\ UNCHANGED <<agent_id, stage1, stage2, attempts1, attempts2, calls2, err,
                   timestamp, clock, dirs>>
    /\ UNCHANGED serVars

\* lines 217-220
SaveFullHistory(r) ==
    /\ pc[r] = "saved2"
    /\ WriteFile(r, "full_pipeline_history", timestamp[r])
    /\ pc' = [pc EXCEPT ![r] = "done"]
    /\ UNCHANGED <<agent_id, stage1, stage2, attempts1, attempts2, calls2, err,
                   timestamp, clock, dirs>>
    /\ UNCHANGED serVars

\* a second passes on the wall clock (datetime.now() of line 196)
Tick ==
    /\ clock < MaxClock
    /\ clock' = clock + 1
    /\ UNCHANGED <<pc, agent_id, stage1, stage2, attempts1, attempts2, calls2,
                   err, timestamp, dirs, files, wlog>>
    /\ UNCHANGED serVars

(***************************************************************************)
(* Specifications.                                                         *)
(***************************************************************************)
SerIdle ==
    /\ fn = "history" /\ message_history = <<>> /\ snakemake_history = <<>>
    /\ format_type = "json" /\ parentExists = TRUE
    /\ file = [state |-> "absent", doc |-> NoDoc] /\ mdfile = "absent"
    /\ spc = "idle" /\ exc = "none" /\ messages_data = <<>> /\ written = 0

RunsOff(p) ==
    /\ pc = [r \in Runs |-> p]
    /\ agent_id = [r \in Runs |-> NoId]
    /\ stage1 = [r \in Runs |-> "idle"]
    /\ stage2 = [r \in Runs |-> "idle"]
    /\ attempts1 = [r \in Runs |-> 0]
    /\ attempts2 = [r \in Runs |-> 0]
    /\ calls2 = [r \in Runs |-> 0]
    /\ err = [r \in Runs |-> "none"]
    /\ timestamp = [r \in Runs |-> -1]
    /\ clock = 0
    /\ dirs = {}
    /\ files = {}
    /\ wlog = {}

\* every process is about to execute playground.py
Init == SerIdle /\ RunsOff("import")

Next ==
    \/ \E r \in Runs : CreateRunDir(r)
    \/ \E r \in Runs : Stage1Start(r)
    \/ \E r \in Runs : Stage1Invalid(r)
    \/ \E r \in Runs : Stage1Transport(r)
    \/ \E r \in Runs : Stage1Valid(r)
    \/ \E r \in Runs : SaveWorkflowHistory(r)
    \/ \E r \in Runs : Stage2Start(r)
    \/ \E r \in Runs : Stage2Invalid(r)
    \/ \E r \in Runs : Stage2Transport(r)
    \/ \E r \in Runs : Stage2Valid(r)
    \/ \E r \in Runs : SaveSnakemakeHistory(r)
    \/ \E r \in Runs : SaveFullHistory(r)
    \/ Tick

Spec == Init /\ [][Next]_vars

\* sequences over S of length at most n
RECURSIVE SeqsUpTo(_, _)
SeqsUpTo(S, n) ==
    IF n = 0 THEN {<<>>}
    ELSE LET shorter == SeqsUpTo(S, n - 1)
         IN shorter \cup {Append(q, x) : q \in {q2 \in shorter : Len(q2) = n - 1}, x \in S}

\* the inputs of one serializer call: every single turn, and every sequence
\* of the six sample turns up to MaxLen
Histories == SeqsUpTo(SmallTurns, MaxLen) \cup {<<m>> : m \in AllTurns}

InitSer ==
    /\ RunsOff("off")
    /\ fn \in {"history", "full"}
    /\ message_history \in Histories
    /\ snakemake_history \in (IF fn = "full" THEN SeqsUpTo(SmallTurns, 1) ELSE {<<>>})
    /\ format_type \in (IF fn = "history" THEN FormatTypes ELSE {"json"})
    /\ parentExists \in BOOLEAN
    \* a file can be at file_path only if its directory exists
    /\ file \in {[state |-> "absent", doc |-> NoDoc]}
                  \cup (IF parentExists THEN {[state |-> "complete", doc |-> OldDoc]} ELSE {})
    /\ mdfile = "absent"
    /\ spc = "call" /\ exc = "none" /\ messages_data = <<>> /\ written = 0

NextSer ==
    \/ SerExtract
    \/ SerOpen
    \/ SerDumpChunk
    \/ SerDumpFinish
    \/ SerFallbackOpen
    \/ SerFallbackDump
    \/ SerMdOpen
    \/ SerMdWrite
    \/ SerMdFinish
    \/ SerNoFormat
    \/ FullOpen
    \/ FullDumpChunk
    \/ FullDumpFinish
    \/ SerKill

SpecSer == InitSer /\ [][NextSer]_vars


(***************************************************************************)
(* Properties of the runs (checked under Spec).                            *)
(***************************************************************************)
TranscriptNames ==
    {"workflow_design_history", "snakemake_generation_history", "full_pipeline_history"}

\* the writes run r has made
WritesOf(r) == {w \in wlog : w.run = r}

\* the stage-1 transcript of run r is on disk
HasWorkflowHistory(r) ==
    \E f \in files : f.dir = OutputDir(r) /\ f.name = "workflow_design_history"

\* C1: code_agent.run is started only after workflow_agent.run has returned a
\* result; the two calls of a run are never in flight together; and a run
\* whose stage 1 raised has never invoked stage 2.
C1_StageOrder ==
    \A r \in Runs :
        /\ stage2[r] # "idle" => stage1[r] = "ok"
        /\ ~(stage1[r] = "inflight" /\ stage2[r] = "inflight")
        /\ stage1[r] = "failed" => calls2[r] = 0 /\ stage2[r] = "idle"

\* one run has stage 2 in flight while another's stage 1 has raised
C1_Witness ==
    \E r1, r2 \in Runs :
        /\ stage2[r1] = "inflight" /\ calls2[r1] = 1
        /\ stage1[r2] = "failed" /\ pc[r2] = "failed"

\* C2 as stated: once the stage-1 call has completed, with a WorkflowDesign
\* or by validation exhaustion, and the run has proceeded or failed, the
\* workflow_design_history file is in the output directory.
C2_PersistedAfterCompletion ==
    \A r \in Runs :
        (\/ stage1[r] = "ok" /\ pc[r] # "designed"
         \/ stage1[r] = "failed" /\ err[r] = "validation")
        => HasWorkflowHistory(r)

\* C2 amended: once the stage-1 call has returned a WorkflowDesign, the
\* workflow_design_history file named by the run's timestamp is on disk before
\* stage 2 starts and from then on; a run whose stage-1 call raised (validation
\* exhaustion included) has written no file at all.
C2_PersistedAfterSuccess ==
    \A r \in Runs :
        /\ stage1[r] = "ok" /\ pc[r] # "designed" =>
              \E f \in files : /\ f.dir = OutputDir(r)
                               /\ f.name = "workflow_design_history"
                               /\ f.ts = timestamp[r]
        /\ stage1[r] = "failed" => WritesOf(r) = {}

\* stage 2 of a run is in flight and the run's stage-1 transcript is on disk,
\* while another run failed by validation exhaustion and wrote nothing
C2_Witness ==
    \E r1, r2 \in Runs :
        /\ stage2[r1] = "inflight"
        /\ \E w \in WritesOf(r1) : w.name = "workflow_design_history"
        /\ stage1[r2] = "failed" /\ err[r2] = "validation" /\ WritesOf(r2) = {}

\* C3: a run in which both stages returned well-formed results has written
\* exactly three transcript files, one of each name, into its output
\* directory, all named with the one timestamp taken at line 196.
C3_ThreeFilesOneTimestamp ==
    \A r \in Runs :
        pc[r] = "done" =>
            /\ stage1[r] = "ok" /\ stage2[r] = "ok"
            /\ Cardinality(WritesOf(r)) = 3
            /\ {w.name : w \in WritesOf(r)} = TranscriptNames
            /\ \A w \in WritesOf(r) : w.ts = timestamp[r] /\ w.dir = OutputDir(r)
            /\ \A n \in TranscriptNames :
                  \E f \in files : f.dir = OutputDir(r) /\ f.name = n /\ f.ts = timestamp[r]

\* a run has finished after the clock moved on from its timestamp
C3_Witness ==
    \E r \in Runs : pc[r] = "done" /\ clock > timestamp[r] /\ Cardinality(WritesOf(r)) = 3

\* C6 as stated: any two runs that have allocated their directory own
\* distinct directories, and no file is written by more than one run.
C6_DistinctRuns ==
    \A r1, r2 \in Runs :
        r1 # r2 /\ pc[r1] # "import" /\ pc[r2] # "import" =>
            /\ OutputDir(r1) # OutputDir(r2)
            /\ \A w1 \in WritesOf(r1), w2 \in WritesOf(r2) :
                  ~(w1.dir = w2.dir /\ w1.name = w2.name /\ w1.ts = w2.ts)

\* C6 amended: two runs whose generated identifiers differ own distinct
\* directories and write no transcript file in common, and a transcript is
\* overwritten by another run only when both runs drew the same identifier
\* and took the same timestamp.
C6_DistinctIds ==
    \A r1, r2 \in Runs :
        r1 # r2 /\ pc[r1] # "import" /\ pc[r2] # "import" =>
            /\ agent_id[r1] # agent_id[r2] =>
                  /\ OutputDir(r1) # OutputDir(r2)
                  /\ \A w1 \in WritesOf(r1), w2 \in WritesOf(r2) :
                        ~(w1.dir = w2.dir /\ w1.name = w2.name /\ w1.ts = w2.ts)
            /\ \A w \in WritesOf(r1) :
                  (\E f \in files : /\ f.dir = w.dir /\ f.name = w.name /\ f.ts = w.ts
                                    /\ f.owner = r2)
                  => agent_id[r1] = agent_id[r2] /\ timestamp[r1] = timestamp[r2]

\* two runs with different identifiers have both finished with the same
\* timestamp
C6_Witness ==
    \E r1, r2 \in Runs :
        /\ agent_id[r1] # agent_id[r2]
        /\ pc[r1] = "done" /\ pc[r2] = "done"
        /\ timestamp[r1] = timestamp[r2]

\* C7: a run whose stage 1 failed by validation exhaustion made exactly
\* max_validation_retries attempts and never invoked stage 2.
C7_ExhaustedAfterConfiguredRetries ==
    \A r \in Runs :
        stage1[r] = "failed" /\ err[r] = "validation" =>
            attempts1[r] = max_validation_retries /\ calls2[r] = 0


(***************************************************************************)
(* Properties of one serializer call (checked under SpecSer).              *)
(***************************************************************************)
Ended == spc \in {"returned", "raised"}

\* the document of this call is complete at file_path, in the normal or in
\* the degraded form
CompleteDocument ==
    /\ file.state = "complete"
    /\ file.doc.timestamp = NowIso.v
    /\ file.doc.total_messages = Len(message_history)
    /\ \/ /\ file.doc.form = "normal"
          /\ file.doc.keys = {"timestamp", "total_messages", "messages"}
          /\ Len(file.doc.messages) = Len(message_history)
       \/ /\ file.doc.form = "degraded"
          /\ file.doc.keys = {"timestamp", "total_messages", "error", "messages_str"}
          /\ Len(file.doc.messages_str) = Len(message_history)

\* C4 as stated: every call of save_message_history either returns with a
\* complete document at the destination or raises an I/O error of the write.
C4_FileOrIOError ==
    fn = "history" /\ Ended =>
        \/ spc = "returned" /\ CompleteDocument
        \/ spc = "raised" /\ exc = "io"

\* C4 amended: every call of save_message_history with format_type "json" (in
\* any letter case; the default) either returns with a complete document, in
\* the normal or the degraded form, at the destination, or raises an I/O
\* error of the write itself (here: the destination's parent directory does
\* not exist); the degraded form is written exactly when extraction, the
\* first open or the encoding failed.
C4_JsonFileOrIOError ==
    IsJson /\ Ended =>
        \/ /\ spc = "returned" /\ CompleteDocument /\ parentExists
           /\ file.doc.form = "degraded" <=> exc # "none"
        \/ spc = "raised" /\ exc = "io" /\ ~parentExists /\ file.state = "absent"

\* a call returned after model_dump() raised during extraction: the degraded
\* document is at the destination
C4_Witness ==
    /\ IsJson /\ spc = "returned" /\ exc = "extract"
    /\ file.state = "complete" /\ file.doc.form = "degraded"

\* C5 as stated: at every point the file at the final path is absent or holds
\* one complete document.
C5_NeverPartial == file.state \in {"absent", "complete"}

\* C5 amended: when a call that writes JSON returns, the file at the final
\* path holds one complete document; the path holds a truncated or partly
\* written document only while a write is in progress, after the process was
\* terminated during a write, or after json.dump raised in
\* save_full_message_history.
C5_CompleteOnReturn ==
    /\ spc = "returned" /\ (IsJson \/ fn = "full") => file.state = "complete"
    /\ file.state = "partial" =>
          \/ spc \in {"dump", "fallback", "fbdump", "fulldump", "killed"}
          \/ spc = "raised" /\ fn = "full" /\ exc = "encode"

\* a call returned after json.dump failed part-way through and the handler
\* rewrote the same path
C5_Witness ==
    /\ IsJson /\ spc = "returned" /\ exc = "encode"
    /\ Len(message_history) > 1 /\ file.state = "complete"

\* the record of the i-th turn as it stands in the written document
WrittenRecord(i) == JsonRecord(extract_message_data(message_history[i], i - 1))

\* C8 as stated: for every non-empty input, the written document has
\* total_messages = N and N messages, the i-th with id i (from 0) and
\* extracted from the i-th turn.
C8_CountAndOrder ==
    IsJson /\ spc = "returned" /\ Len(message_history) > 0 =>
        /\ file.doc.total_messages = Len(message_history)
        /\ Len(file.doc.messages) = Len(message_history)
        /\ \A i \in 1..Len(message_history) :
              /\ file.doc.messages[i].id = i - 1
              /\ file.doc.messages[i] = WrittenRecord(i)

\* C8 amended: for every non-empty input whose extraction and encoding
\* succeed, the written document has total_messages = N and N messages, the
\* i-th with id i (from 0) and extracted from the i-th turn; otherwise the
\* degraded document has total_messages = N and the N stringified turns in
\* input order, and no ids.
C8_CountAndOrderIfEncodable ==
    IsJson /\ spc = "returned" /\ Len(message_history) > 0 =>
        /\ file.doc.total_messages = Len(message_history)
        /\ exc = "none" =>
              /\ "messages" \in file.doc.keys
              /\ Len(file.doc.messages) = Len(message_history)
              /\ \A i \in 1..Len(message_history) :
                    /\ file.doc.messages[i].id = i - 1
                    /\ file.doc.messages[i] = WrittenRecord(i)
        /\ exc # "none" =>
              /\ "messages" \notin file.doc.keys
              /\ Len(file.doc.messages_str) = Len(message_history)
              /\ \A i \in 1..Len(message_history) :
                    file.doc.messages_str[i] = PyStr(Repr(message_history[i]))

\* a normal document of at least two turns of different shapes was written
C8_Witness ==
    /\ IsJson /\ spc = "returned" /\ exc = "none"
    /\ Len(message_history) >= 2
    /\ message_history[1] # message_history[2]
    /\ file.doc.form = "normal"

Unknown == PyStrVal("unknown")

ReadsFields(m) == m.hasDump \/ m.hasDict \/ m.isMap
SourceOf(m) == IF m.hasDump THEN "dump" ELSE IF m.hasDict THEN "attr" ELSE "key"

\* C10 as stated: in each of the three shapes an absent content becomes the
\* empty string, a present content its string form, an absent metadata the
\* empty mapping.
C10_SameFallback ==
    \A i \in 1..Len(messages_data) :
        LET m == message_history[i]
            rec == messages_data[i]
        IN ReadsFields(m) =>
              /\ m.content = Absent => rec.content = PyStrVal("")
              /\ m.content # Absent => rec.content = PyStr(View(SourceOf(m), m.content))
              /\ m.metadata = Absent => rec.metadata = EmptyDict

\* C10 amended: an absent content becomes the empty string in the
\* structured-dump and plain-mapping shapes and the stringified turn in the
\* attribute-bearing shape; in all three a present content becomes its string
\* form, an absent metadata the empty mapping and a present metadata itself.
C10_FallbackPerShape ==
    \A i \in 1..Len(messages_data) :
        LET m == message_history[i]
            rec == messages_data[i]
        IN ReadsFields(m) =>
              /\ m.content = Absent /\ SourceOf(m) # "attr" => rec.content = PyStrVal("")
              /\ m.content = Absent /\ SourceOf(m) = "attr" => rec.content = PyStr(Repr(m))
              /\ m.content # Absent => rec.content = PyStr(View(SourceOf(m), m.content))
              /\ m.metadata = Absent => rec.metadata = EmptyDict
              /\ m.metadata # Absent => rec.metadata = View(SourceOf(m), m.metadata)

\* an attribute-bearing turn without content and metadata has been extracted:
\* its content is the stringified turn, its metadata the empty mapping
C10_Witness ==
    \E i \in 1..Len(messages_data) :
        /\ SourceOf(message_history[i]) = "attr" /\ message_history[i].hasDict
        /\ message_history[i].content = Absent /\ message_history[i].metadata = Absent
        /\ messages_data[i].content = PyStr(Repr(message_history[i]))
        /\ messages_data[i].metadata = EmptyDict

====
